---- MODULE Spec2Model ----
(***************************************************************************)
(* Model of the battlesnakes server (src/battlesnakes/backend/server.js,   *)
(* latest revision, lines 1-405): the lobby / in-game session, the socket  *)
(* handlers and the 100 ms tick callback; and of the page of one socket    *)
(* (src/battlesnakes/frontend/js/game.js with the Snake class of           *)
(* src/unnamed/part_000).  Every handler is one atomic action (node and    *)
(* the browser run each callback to completion).                           *)
(***************************************************************************)
EXTENDS Integers, Sequences, FiniteSets, TLC

(* ------------------------------------------------------------------ *)
(* Bounds of the model                                                 *)
(* ------------------------------------------------------------------ *)
\* The grid of the source is 40 x 30 (server.js:26-27); the model explores a
\* scaled-down grid.  Every rule of the code is written against these two names.
FIXED_TILE_COUNT_X == 3
FIXED_TILE_COUNT_Y == 2
\* sockets that exist in the round explorations (SpecRound)
MaxPlayers == 3
\* sockets that exist in the exploration from server start (Spec)
MaxSessionPlayers == 2
\* ticks explored per round, rounds explored per run
MaxTicks == 2
MaxRounds == 2
\* client events handled in one exploration from server start (Spec) and
\* in one exploration from a round start (SpecRound)
MaxEvents == 6
MaxRoundEvents == 2
\* direction requests explored between two ticks (SpecIntent)
MaxIntents == 3
MaxFoodEvents == 1
MaxFoodTicks == 1
MaxQuietTicks == 4
\* direction requests handled in one exploration of the page (SpecPage)
MaxPageEvents == 1

\* number of body segments setupPlayerForGame tries to give a snake (server.js:78)
InitialSegments == 3

\* values a client may put in directionData.dx / .dy (2 is outside the protocol)
IntentValues == {-1, 0, 1, 2}

Ids == 1..MaxPlayers
SessionIds == 1..MaxSessionPlayers

VARIABLES
    gameState,        \* 'lobby' | 'ingame'                      (server.js:19)
    currentGamemode,  \* gamemode selected in the lobby          (server.js:20)
    activeGamemode,   \* gamemode of the running round           (server.js:21)
    teamScore,        \*                                          (server.js:22)
    players,          \* the players object: id -> player record  (server.js:24)
    order,            \* key (insertion) order of the players object
    food,             \* [x, y]                                   (server.js:29)
    emitted,          \* messages io.emit sent during the last step
    lastEvent,        \* the callback that ran last
    hung,             \* a do/while of the server never terminated
    startCount,       \* history: number of players when the round started
    ticks,            \* history: ticks executed in this round
    rounds,           \* history: rounds started
    events,           \* history: client events handled
    prev,             \* history: the state the last tick started from
    startLength,      \* history: body length of every snake when the round started
    movedBy,          \* history: the (dx, dy) every snake was moved by in the last tick
    localSnake,       \* the page's Snake object of its own player   (game.js:11)
    intent,           \* history: the last direction request and what it met
    remotePlayers,    \* the page's Snake objects of the other players (game.js:16)
    currentView,      \* 'lobby' | 'game'                          (game.js:19)
    inbox,            \* messages of the server on their way to the page
    toggled,          \* history: the playerReadyToggle events handled in succession
    leftInRound,      \* history: a player disconnected since the round started
    spawning          \* the do/while of spawnFood in a tick: running, last sample

vars == <<gameState, currentGamemode, activeGamemode, teamScore, players, order,
          food, emitted, lastEvent, hung, startCount, ticks, rounds, events, prev,
          startLength, movedBy, localSnake, intent, remotePlayers, currentView, inbox,
          toggled, leftInRound, spawning>>

\* the state of the page
clientVars == <<localSnake, intent, remotePlayers, currentView, inbox>>

Cell(x, y) == [x |-> x, y |-> y]
Grid == {Cell(x, y) : x \in 0..(FIXED_TILE_COUNT_X - 1), y \in 0..(FIXED_TILE_COUNT_Y - 1)}

Cells(body) == {body[i] : i \in 1..Len(body)}

\* a player entry that is ready from the start
initializeReadyPlayer ==
    [isReady |-> TRUE, score |-> 0, body |-> <<>>, dx |-> 0, dy |-> 0, isAlive |-> FALSE]

\* initializeLobbyPlayer: no snake yet.  body, dx, dy, isAlive are undefined in
\* the source; undefined is falsy and body-less, modelled as <<>>, 0, 0, FALSE
\* (every test the code makes on them gives the same answer).
initializeLobbyPlayer ==
    [isReady |-> FALSE, score |-> 0, body |-> <<>>, dx |-> 0, dy |-> 0, isAlive |-> FALSE]

\* player.x !== undefined: x, y are set with the body and always equal body[0]
HasPosition(p) == Len(p.body) > 0

\* toggled when the last step was not a playerReadyToggle
NoToggles == [id |-> 0, n |-> 0, wasReady |-> FALSE, othersReady |-> FALSE, inLobby |-> FALSE]

\* spawning when spawnFood has not been entered step by step
NoSpawning == [active |-> FALSE, cell |-> Cell(-1, -1), rejected |-> FALSE,
               returned |-> FALSE]

\* prev when the last step was not a tick
NoTick ==
    [gameState |-> "none", currentGamemode |-> "none", teamScore |-> 0,
     players |-> <<>>, food |-> Cell(-1, -1), movedBy |-> <<>>]
\* prev after a tick
Snapshot ==
    [gameState |-> gameState, currentGamemode |-> currentGamemode,
     teamScore |-> teamScore, players |-> players, food |-> food, movedBy |-> movedBy]

\* no page is open: there is no client Snake and no request was made
NoSnake == [body |-> <<>>, x |-> 0, y |-> 0, dx |-> 0, dy |-> 0, isAlive |-> FALSE,
            canChangeDirection |-> FALSE]
NoIntent == [id |-> 0, newDx |-> 0, newDy |-> 0, player |-> initializeLobbyPlayer, snake |-> NoSnake]
NoClient ==
    /\ localSnake = NoSnake
    /\ intent = NoIntent
    /\ remotePlayers = <<>>
    /\ currentView = "lobby"
    /\ inbox = <<>>

Init ==
    /\ gameState = "lobby"
    /\ currentGamemode = "competitive"
    /\ activeGamemode = "competitive"
    /\ teamScore = 0
    /\ players = <<>>
    /\ order = <<>>
    /\ food = Cell(-1, -1)
    /\ emitted = <<>>
    /\ lastEvent = "listen"
    /\ hung = FALSE
    /\ startCount = 0
    /\ ticks = 0
    /\ rounds = 0
    /\ events = 0
    /\ prev = NoTick
    /\ startLength = <<>>
    /\ movedBy = <<>>
    /\ toggled = NoToggles
    /\ leftInRound = FALSE
    /\ spawning = NoSpawning
    /\ NoClient

Msg(name) == [msg |-> name, id |-> 0]

Min(a, b) == IF a < b THEN a ELSE b
Last(s) == s[Len(s)]
RemoveId(ord, id) == SelectSeq(ord, LAMBDA k : k # id)

(* ------------------------------------------------------------------ *)
(* Round setup: setupPlayerForGame, spawnFood, checkAllPlayersReady,   *)
(* startGame                                                           *)
(* ------------------------------------------------------------------ *)
\* existingPlayerPositions: the head cell of every player that has one, the
\* player being set up and players of the previous round included
existingPlayerPositions(P) == {P[id].body[1] : id \in {k \in DOMAIN P : HasPosition(P[k])}}

\* the cells the do/while of setupPlayerForGame can leave with
StartCells(P) == Grid \ existingPlayerPositions(P)

\* a setup that starts with 1 segment
InitialBodyOfOne(c) == <<c>>

\* the body built at a start cell: the head and up to two cells to its left,
\* stopping at the left edge
InitialBody(c) ==
    [k \in 1..Min(InitialSegments, c.x + 1) |-> Cell(c.x - (k - 1), c.y)]

setupPlayerForGame(p, c) ==
    [p EXCEPT !.body = InitialBody(c), !.dx = 1, !.dy = 0, !.score = 0, !.isAlive = TRUE]

\* startGame's forEach: the players are set up one after the other in key
\* order, each against the positions the map holds at that moment.  The set of
\* maps the loop can end with (empty: some do/while never found a cell).
RECURSIVE SetupFrom(_, _, _)
SetupFrom(P, ord, i) ==
    IF i > Len(ord) THEN {P}
    ELSE UNION { SetupFrom([P EXCEPT ![ord[i]] = setupPlayerForGame(P[ord[i]], c)], ord, i + 1)
                 : c \in StartCells(P) }

\* the cells spawnFood's do/while can leave with: not on the body of a player
\* with isAlive and a body
OnLivingSnake(P) ==
    UNION {Cells(P[id].body) : id \in {k \in DOMAIN P : P[k].isAlive /\ Len(P[k].body) > 0}}
\* a food spawn that takes any cell of the grid
spawnFoodAnywhere(P) == Grid
spawnFood(P) == Grid \ OnLivingSnake(P)

\* a start check that asks for one ready player only
checkSomePlayerReady(P) ==
    /\ Cardinality(DOMAIN P) # 0
    /\ \E id \in DOMAIN P : P[id].isReady

checkAllPlayersReady(P) ==
    /\ Cardinality(DOMAIN P) # 0
    /\ \A id \in DOMAIN P : P[id].isReady

\* startGame, called with the player map P and the messages already emitted
startGame(P, out) ==
    /\ gameState' = "ingame"
    /\ activeGamemode' = currentGamemode
    /\ teamScore' = 0
    /\ startCount' = Cardinality(DOMAIN P)
    /\ leftInRound' = FALSE
    /\ movedBy' = [id \in DOMAIN P |-> <<0, 0>>]
    /\ ticks' = 0
    /\ rounds' = rounds + 1
    /\ IF SetupFrom(P, order, 1) = {}
       THEN \* a do/while of setupPlayerForGame never ends
            /\ players' = P
            /\ food' = food
            /\ emitted' = out
            /\ hung' = TRUE
            /\ UNCHANGED startLength
       ELSE \E Q \in SetupFrom(P, order, 1) :
               /\ players' = Q
               /\ startLength' = [id \in DOMAIN Q |-> Len(Q[id].body)]
               /\ IF spawnFood(Q) = {}
                  THEN \* the do/while of spawnFood never ends
                       /\ food' = food
                       /\ emitted' = out
                       /\ hung' = TRUE
                  ELSE /\ food' \in spawnFood(Q)
                       /\ emitted' = Append(out, Msg("gameStarting"))
                       /\ hung' = FALSE
    /\ UNCHANGED <<currentGamemode, order>>

(* ------------------------------------------------------------------ *)
(* Socket handlers                                                     *)
(* ------------------------------------------------------------------ *)
\* io.on('connection'): in either state, adds a lobby player
Join(id) ==
    /\ ~hung
    /\ id \notin DOMAIN players
    /\ players' = [k \in DOMAIN players \cup {id} |->
                      IF k = id THEN initializeLobbyPlayer ELSE players[k]]
    /\ order' = Append(order, id)
    /\ emitted' = <<Msg("lobbyUpdate")>>
    /\ lastEvent' = "connection"
    /\ events' = events + 1
    /\ prev' = NoTick
    /\ toggled' = NoToggles
    /\ UNCHANGED <<gameState, currentGamemode, activeGamemode, teamScore, food, hung,
                   startCount, ticks, rounds, startLength, movedBy,
                   leftInRound>>

\* socket.on('playerReadyToggle')
playerReadyToggle(id) ==
    /\ ~hung
    /\ id \in DOMAIN players
    /\ lastEvent' = "playerReadyToggle"
    /\ events' = events + 1
    /\ prev' = NoTick
    /\ toggled' = IF toggled.id = id /\ toggled.n = 1
                  THEN [toggled EXCEPT !.n = 2]
                  ELSE [id |-> id, n |-> 1, wasReady |-> players[id].isReady,
                        othersReady |-> \A k \in DOMAIN players \ {id} : players[k].isReady,
                        inLobby |-> gameState = "lobby"]
    /\ LET P == [players EXCEPT ![id].isReady = ~players[id].isReady]
           out == <<Msg("lobbyUpdate")>>
       IN  IF gameState = "lobby" /\ checkAllPlayersReady(P)
           THEN startGame(P, out)
           ELSE /\ players' = P
                /\ emitted' = out
                /\ UNCHANGED <<gameState, currentGamemode, activeGamemode, teamScore,
                               order, food, hung, startCount, ticks, rounds, startLength, movedBy,
                   leftInRound>>

\* a handler that returns to the lobby whenever somebody leaves a round
gameStateAfterAnyDisconnect(P) == "lobby"

\* Object.keys(players).length === 0: back to the lobby, else the round goes on
gameStateAfterDisconnect(P) == IF DOMAIN P = {} THEN "lobby" ELSE "ingame"

\* socket.on('disconnect')
disconnect(id) ==
    /\ ~hung
    /\ id \in DOMAIN players
    /\ lastEvent' = "disconnect"
    /\ events' = events + 1
    /\ prev' = NoTick
    /\ toggled' = NoToggles
    /\ players' = [k \in DOMAIN players \ {id} |-> players[k]]
    /\ order' = RemoveId(order, id)
    /\ IF gameState = "lobby"
       THEN /\ emitted' = <<Msg("lobbyUpdate")>>
            /\ UNCHANGED gameState
       ELSE /\ emitted' = <<[msg |-> "playerDisconnected", id |-> id]>>
            /\ gameState' = gameStateAfterDisconnect(players')
    /\ leftInRound' = (leftInRound \/ gameState = "ingame")
    /\ UNCHANGED <<currentGamemode, activeGamemode, teamScore, food, hung,
                   startCount, ticks, rounds, startLength, movedBy>>

\* a handler with the last of the three early returns only
DirectionAcceptedOnAnyAxis(p, newDx, newDy) ==
    ~((newDx = 0 /\ newDy = 0) \/ (newDx # 0 /\ newDy # 0))

\* the three early returns of the playerDirectionChange handler
DirectionAccepted(p, newDx, newDy) ==
    LET isMovingHorizontally == p.dx # 0
        isMovingVertically == p.dy # 0
    IN  /\ ~(isMovingHorizontally /\ newDx # 0 /\ p.dx = -newDx)
        /\ ~(isMovingVertically /\ newDy # 0 /\ p.dy = -newDy)
        /\ ~((newDx = 0 /\ newDy = 0) \/ (newDx # 0 /\ newDy # 0))

\* socket.on('playerDirectionChange')
playerDirectionChange(id, newDx, newDy) ==
    /\ ~hung
    /\ id \in DOMAIN players
    /\ lastEvent' = "playerDirectionChange"
    /\ events' = events + 1
    /\ prev' = NoTick
    /\ toggled' = NoToggles
    /\ emitted' = <<>>
    /\ players' = IF gameState = "ingame" /\ DirectionAccepted(players[id], newDx, newDy)
                  THEN [players EXCEPT ![id].dx = newDx, ![id].dy = newDy]
                  ELSE players
    /\ UNCHANGED <<gameState, currentGamemode, activeGamemode, teamScore, order, food,
                   hung, startCount, ticks, rounds, startLength, movedBy,
                   leftInRound>>

\* a handler that toggles the gamemode in either state
requestChangeGamemodeInRound(id) ==
    /\ ~hung
    /\ id \in DOMAIN players
    /\ lastEvent' = "requestChangeGamemode"
    /\ events' = events + 1
    /\ prev' = NoTick
    /\ toggled' = NoToggles
    /\ currentGamemode' = IF currentGamemode = "competitive"
                           THEN "cooperative" ELSE "competitive"
    /\ emitted' = <<Msg("lobbyUpdate")>>
    /\ UNCHANGED <<gameState, activeGamemode, teamScore, players, order, food, hung,
                   startCount, ticks, rounds, startLength, movedBy,
                   leftInRound>>

\* socket.on('requestChangeGamemode')
requestChangeGamemode(id) ==
    /\ ~hung
    /\ id \in DOMAIN players
    /\ lastEvent' = "requestChangeGamemode"
    /\ events' = events + 1
    /\ prev' = NoTick
    /\ toggled' = NoToggles
    /\ IF gameState = "lobby"
       THEN /\ currentGamemode' = IF currentGamemode = "competitive"
                                  THEN "cooperative" ELSE "competitive"
            /\ emitted' = <<Msg("lobbyUpdate")>>
       ELSE /\ emitted' = <<>>
            /\ UNCHANGED currentGamemode
    /\ UNCHANGED <<gameState, activeGamemode, teamScore, players, order, food, hung,
                   startCount, ticks, rounds, startLength, movedBy,
                   leftInRound>>

(* ------------------------------------------------------------------ *)
(* The tick callback (setInterval, server.js:235-398)                  *)
(* ------------------------------------------------------------------ *)
\* loop 1: the players that get a pendingHead
Moves(p) == p.isAlive /\ Len(p.body) > 0

\* pendingHead: a copy of body[0] advanced by (dx, dy)
pendingHead(p) == Cell(p.body[1].x + p.dx, p.body[1].y + p.dy)

\* a wall test that knows the left and the top edge only
HitWallLeftTop(head) ==
    \/ head.x < 0
    \/ head.y < 0

HitWall(head) ==
    \/ head.x < 0
    \/ head.x >= FIXED_TILE_COUNT_X
    \/ head.y < 0
    \/ head.y >= FIXED_TILE_COUNT_Y

\* the self-collision loop: for (i = 1; i < body.length; i++), 0-based
HitSelf(body, head) == \E i \in 2..Len(body) : body[i] = head

AteFood(p, f) == Moves(p) /\ pendingHead(p) = f

\* a food step that leaves the body as it is
BodyWithoutGrowth(p, f) == p.body

\* the body after the food step: the tail is duplicated when the player ate
BodyAfterFood(p, f) ==
    IF AteFood(p, f) THEN Append(p.body, Last(p.body)) ELSE p.body

\* alive after the wall and the self-collision checks of loop 2
AliveAfterOwnChecks(p, f) ==
    /\ Moves(p)
    /\ ~HitWall(pendingHead(p))
    /\ ~HitSelf(BodyAfterFood(p, f), pendingHead(p))

\* unshift(head) without the pop()
AdvanceKeepingTail(body, head) == <<head>> \o body

\* unshift(head) then pop()
Advance(body, head) == <<head>> \o SubSeq(body, 1, Len(body) - 1)

\* a loop 2 without its guard, which takes the food step for a player that has
\* no pending head
MovePlayerUnguarded(p, f) ==
    IF ~Moves(p) THEN [p EXCEPT !.score = p.score + 1]
    ELSE [p EXCEPT
            !.score = IF AteFood(p, f) THEN p.score + 1 ELSE p.score,
            !.isAlive = AliveAfterOwnChecks(p, f),
            !.body = IF AliveAfterOwnChecks(p, f)
                     THEN Advance(BodyAfterFood(p, f), pendingHead(p))
                     ELSE BodyAfterFood(p, f)]

\* a loop 2 that commits the move before it looks at the collision flags
MovePlayerAlways(p, f) ==
    IF ~Moves(p) THEN p
    ELSE [p EXCEPT
            !.score = IF AteFood(p, f) THEN p.score + 1 ELSE p.score,
            !.isAlive = AliveAfterOwnChecks(p, f),
            !.body = Advance(BodyAfterFood(p, f), pendingHead(p))]

\* one iteration of loop 2 for one player (food is not changed inside the loop,
\* so the iterations do not depend on each other)
MovePlayer(p, f) ==
    IF ~Moves(p) THEN p
    ELSE [p EXCEPT
            !.score = IF AteFood(p, f) THEN p.score + 1 ELSE p.score,
            !.isAlive = AliveAfterOwnChecks(p, f),
            !.body = IF AliveAfterOwnChecks(p, f)
                     THEN Advance(BodyAfterFood(p, f), pendingHead(p))
                     ELSE BodyAfterFood(p, f)]

MoveAll(P, f) == [id \in DOMAIN P |-> MovePlayer(P[id], f)]

\* a tick that counts no food consumption
NoEaters(P, f) == {}

\* the players whose pending head is on the food in section 2
Eaters(P, f) == {id \in DOMAIN P : AteFood(P[id], f)}

\* a pair check whose head-to-head branch spares p2
PairCheckSparingP2(P, alive, p1, p2) ==
    IF ~alive[p2] \/ Len(P[p2].body) = 0 THEN alive
    ELSE IF P[p1].body[1] = P[p2].body[1]
         THEN [alive EXCEPT ![p1] = FALSE]
         ELSE LET a1 == IF alive[p1] /\ P[p1].body[1] \in Cells(P[p2].body)
                        THEN [alive EXCEPT ![p1] = FALSE] ELSE alive
              IN  IF a1[p2] /\ P[p2].body[1] \in Cells(P[p1].body)
                  THEN [a1 EXCEPT ![p2] = FALSE] ELSE a1

\* a pair check without the head-to-body tests
PairCheckHeadsOnly(P, alive, p1, p2) ==
    IF ~alive[p2] \/ Len(P[p2].body) = 0 THEN alive
    ELSE IF P[p1].body[1] = P[p2].body[1]
         THEN [alive EXCEPT ![p1] = FALSE, ![p2] = FALSE]
         ELSE alive

\* section 3, the body of the inner loop for the pair (p1, p2); alive is the
\* isAlive flag of every player so far, the bodies do not change in section 3
PairCheck(P, alive, p1, p2) ==
    IF ~alive[p2] \/ Len(P[p2].body) = 0 THEN alive
    ELSE LET head1 == P[p1].body[1]
             head2 == P[p2].body[1]
         IN  IF head1 = head2
             THEN [alive EXCEPT ![p1] = FALSE, ![p2] = FALSE]
             ELSE LET a1 == IF alive[p1] /\ head1 \in Cells(P[p2].body)
                            THEN [alive EXCEPT ![p1] = FALSE] ELSE alive
                  IN  IF a1[p2] /\ head2 \in Cells(P[p1].body)
                      THEN [a1 EXCEPT ![p2] = FALSE] ELSE a1

RECURSIVE InnerLoop(_, _, _, _, _)
InnerLoop(P, alive, ord, i, j) ==
    IF j > Len(ord) THEN alive
    ELSE InnerLoop(P, PairCheck(P, alive, ord[i], ord[j]), ord, i, j + 1)

RECURSIVE OuterLoop(_, _, _, _)
OuterLoop(P, alive, ord, i) ==
    IF i > Len(ord) THEN alive
    ELSE IF ~alive[ord[i]] \/ Len(P[ord[i]].body) = 0
         THEN OuterLoop(P, alive, ord, i + 1)
         ELSE OuterLoop(P, InnerLoop(P, alive, ord, i, i + 1), ord, i + 1)

\* section 3: the isAlive flags after the pair scan over Object.keys(players)
SnakeVsSnake(P, ord) == OuterLoop(P, [id \in DOMAIN P |-> P[id].isAlive], ord, 1)

\* a tick that runs section 3 in both gamemodes
AfterCollisionsInEveryMode(P, ord, f, mode) ==
    LET M == MoveAll(P, f)
        alive == SnakeVsSnake(M, ord)
    IN  [id \in DOMAIN M |-> [M[id] EXCEPT !.isAlive = alive[id]]]

\* the player map after sections 1-3 of a tick
AfterCollisions(P, ord, f, mode) ==
    LET M == MoveAll(P, f)
    IN  IF mode = "competitive"
        THEN LET alive == SnakeVsSnake(M, ord)
             IN  [id \in DOMAIN M |-> [M[id] EXCEPT !.isAlive = alive[id]]]
        ELSE M

alivePlayersCount(P) == Cardinality({id \in DOMAIN P : P[id].isAlive})

\* a termination check that waits for the last snake to die in both gamemodes
gameShouldEndWhenAllDead(P, mode) ==
    alivePlayersCount(P) = 0 /\ Cardinality(DOMAIN P) > 0

\* a termination check that applies the competitive rule in both gamemodes
gameShouldEndAsCompetitive(P, mode) ==
    /\ alivePlayersCount(P) <= (IF Cardinality(DOMAIN P) > 1 THEN 1 ELSE 0)
    /\ Cardinality(DOMAIN P) > 0

\* section 4
gameShouldEnd(P, mode) ==
    IF mode = "cooperative"
    THEN alivePlayersCount(P) = 0 /\ Cardinality(DOMAIN P) > 0
    ELSE /\ alivePlayersCount(P) <= (IF Cardinality(DOMAIN P) > 1 THEN 1 ELSE 0)
         /\ Cardinality(DOMAIN P) > 0

\* a game over that leaves the readiness flags as they are
keepReadiness(P) == P

\* the forEach of the game over branch: p.isReady = false
resetReadiness(P) == [id \in DOMAIN P |-> [P[id] EXCEPT !.isReady = FALSE]]

\* a callback whose game over branch does not return
tickEmitsBoth(ended) ==
    IF ended THEN <<Msg("gameOverToLobby"), Msg("gameStateUpdate")>>
    ELSE <<Msg("gameStateUpdate")>>

\* what a tick emits: gameOverToLobby and return, or else gameStateUpdate
tickEmits(ended) ==
    IF ended THEN <<Msg("gameOverToLobby")>> ELSE <<Msg("gameStateUpdate")>>

\* a callback without the guard
TickRunsAlways == TRUE

\* the guard of the callback: game logic runs only in 'ingame'
TickRuns == gameState = "ingame"

\* the timer fires
Tick ==
    /\ ~hung
    /\ lastEvent' = "tick"
    /\ UNCHANGED events
    /\ prev' = Snapshot
    /\ toggled' = NoToggles
    /\ IF ~TickRuns
       THEN /\ emitted' = <<>>
            /\ UNCHANGED <<gameState, currentGamemode, activeGamemode, teamScore, players,
                           order, food, hung, startCount, ticks, rounds, startLength, movedBy,
                   leftInRound>>
       ELSE /\ ticks' = ticks + 1
            /\ LET eaten == Eaters(players, food) # {}
                   M == MoveAll(players, food)
                   P == AfterCollisions(players, order, food, activeGamemode)
               IN  /\ teamScore' = IF activeGamemode = "cooperative"
                                   THEN teamScore + Cardinality(Eaters(players, food))
                                   ELSE teamScore
                   /\ IF eaten /\ spawnFood(M) = {}
                      THEN \* spawnFood never returns
                           /\ hung' = TRUE
                           /\ players' = M
                           /\ emitted' = <<>>
                           /\ UNCHANGED <<gameState, currentGamemode, food>>
                      ELSE /\ hung' = FALSE
                           /\ food' \in (IF eaten THEN spawnFood(M) ELSE {food})
                           /\ IF gameShouldEnd(P, activeGamemode)
                              THEN /\ gameState' = "lobby"
                                   /\ currentGamemode' = "competitive"
                                   /\ players' = resetReadiness(P)
                                   /\ emitted' = tickEmits(TRUE)
                              ELSE /\ players' = P
                                   /\ emitted' = tickEmits(FALSE)
                                   /\ UNCHANGED <<gameState, currentGamemode>>
            /\ movedBy' = [id \in DOMAIN players |->
                            IF Moves(players[id]) THEN <<players[id].dx, players[id].dy>>
                            ELSE <<0, 0>>]
            /\ UNCHANGED <<activeGamemode, order, startCount, rounds, startLength, leftInRound>>

(* ------------------------------------------------------------------ *)
(* The client: the Snake class (src/unnamed/part_000) and the page      *)
(* (src/battlesnakes/frontend/js/game.js)                               *)
(* ------------------------------------------------------------------ *)
\* the socket of the page that is modelled
socketId == 1

\* the constructor of Snake: a body of initialLength cells laid out to the left
\* of (startX, startY), heading right
Snake(startX, startY, initialLength, isAlive) ==
    [body |-> [i \in 1..initialLength |-> Cell(startX - (i - 1), startY)],
     x |-> startX, y |-> startY, dx |-> 1, dy |-> 0, isAlive |-> isAlive,
     canChangeDirection |-> TRUE]

\* initializeGame: the page's Snake, made from its player in the gameStarting
\* data.  The statement that follows, remotePlayers = {} (game.js:180), assigns
\* to a const binding (game.js:16) and throws a TypeError: the rest of
\* initializeGame, with setInterval(gameLoop, gameSpeed) at its end, never runs.
initializeGame(p) ==
    [Snake(p.body[1].x, p.body[1].y, Len(p.body), p.isAlive)
        EXCEPT !.body = p.body, !.dx = p.dx, !.dy = p.dy]

\* Snake.changeDirection
changeDirection(s, newDx, newDy) ==
    LET isMovingHorizontally == s.dx # 0
        isMovingVertically == s.dy # 0
    IN  IF ~s.canChangeDirection THEN s
        ELSE IF isMovingHorizontally /\ newDx # 0 /\ s.dx = -newDx THEN s
        ELSE IF isMovingVertically /\ newDy # 0 /\ s.dy = -newDy THEN s
        ELSE IF s.dx = newDx /\ s.dy = newDy THEN s
        ELSE IF isMovingHorizontally /\ newDx # 0 THEN s
        ELSE IF isMovingVertically /\ newDy # 0 THEN s
        ELSE [s EXCEPT !.dx = newDx, !.dy = newDy, !.canChangeDirection = FALSE]

\* Snake.move: no collision test on the client, the lock is released
move(s) ==
    [s EXCEPT !.body = Advance(s.body, Cell(s.body[1].x + s.dx, s.body[1].y + s.dy)),
              !.canChangeDirection = TRUE,
              !.x = s.body[1].x + s.dx, !.y = s.body[1].y + s.dy]

\* a Snake.update that keeps the body the page has
updateKeepingBody(s, data) ==
    [s EXCEPT !.isAlive = IF HasPosition(data) THEN data.isAlive ELSE s.isAlive,
              !.dx = IF HasPosition(data) THEN data.dx ELSE s.dx,
              !.dy = IF HasPosition(data) THEN data.dy ELSE s.dy]

\* Snake.update(data): data is a player of a message of the server; its body,
\* x, y, dx, dy and isAlive are undefined until the player has been set up.
\* data.x || ... takes the head of the body when data.x is 0 or undefined.
update(s, data) ==
    LET body == IF HasPosition(data) THEN data.body ELSE s.body
        ownX == IF Len(body) > 0 THEN body[1].x ELSE 0
        ownY == IF Len(body) > 0 THEN body[1].y ELSE 0
    IN  [s EXCEPT !.body = body,
                  !.x = IF HasPosition(data) /\ data.body[1].x # 0
                        THEN data.body[1].x ELSE ownX,
                  !.y = IF HasPosition(data) /\ data.body[1].y # 0
                        THEN data.body[1].y ELSE ownY,
                  !.isAlive = IF HasPosition(data) THEN data.isAlive ELSE s.isAlive,
                  !.dx = IF HasPosition(data) THEN data.dx ELSE s.dx,
                  !.dy = IF HasPosition(data) THEN data.dy ELSE s.dy]

\* a message of the server with the players object in it
ToPage(name) == [msg |-> name, players |-> players', order |-> order']

\* what io.emit puts on the way to the page in a step of the server
Sent == IF emitted' = <<>> THEN inbox ELSE Append(inbox, ToPage(emitted'[1].msg))

\* the creation of a remote snake the page does not have (game.js:353)
CreateIfMissing(data) ==
    Snake(data.body[1].x, data.body[1].y, Len(data.body), data.isAlive)

\* the for-in loop of the gameStateUpdate handler from the i-th key on: L is
\* localSnake, R is remotePlayers.  playerData.body.length of a player without
\* a body throws and ends the handler.
RECURSIVE UpdateFrom(_, _, _, _, _)
UpdateFrom(L, R, P, ord, i) ==
    IF i > Len(ord) THEN [localSnake |-> L, remotePlayers |-> R]
    ELSE LET id == ord[i]
             playerData == P[id]
         IN  IF id = socketId
             THEN UpdateFrom(IF L # NoSnake THEN update(L, playerData) ELSE L,
                             R, P, ord, i + 1)
             ELSE IF id \in DOMAIN R
             THEN UpdateFrom(L, [R EXCEPT ![id] = update(R[id], playerData)],
                             P, ord, i + 1)
             ELSE IF ~HasPosition(playerData)
             THEN [localSnake |-> L, remotePlayers |-> R]
             ELSE UpdateFrom(L, [k \in DOMAIN R \cup {id} |->
                                    IF k = id THEN CreateIfMissing(playerData) ELSE R[k]],
                             P, ord, i + 1)

\* what a step of the page leaves alone
PageOnly ==
    UNCHANGED <<gameState, currentGamemode, activeGamemode, teamScore, players, order,
                food, emitted, hung, startCount, ticks, rounds, events, prev,
                startLength, movedBy, intent, toggled, leftInRound, spawning>>

\* socket.on('gameStateUpdate') of the page
gameStateUpdate ==
    /\ inbox # <<>> /\ Head(inbox).msg = "gameStateUpdate"
    /\ inbox' = Tail(inbox)
    /\ lastEvent' = "gameStateUpdate"
    /\ IF currentView # "game"
       THEN UNCHANGED <<localSnake, remotePlayers>>
       ELSE LET after == UpdateFrom(localSnake, remotePlayers, Head(inbox).players,
                                    Head(inbox).order, 1)
            IN  /\ localSnake' = after.localSnake
                /\ remotePlayers' = after.remotePlayers
    /\ UNCHANGED currentView
    /\ PageOnly

\* socket.on('gameOverToLobby') of the page: showView('lobby')
gameOverToLobby ==
    /\ inbox # <<>> /\ Head(inbox).msg = "gameOverToLobby"
    /\ inbox' = Tail(inbox)
    /\ lastEvent' = "gameOverToLobby"
    /\ currentView' = "lobby"
    /\ UNCHANGED <<localSnake, remotePlayers>>
    /\ PageOnly

\* a direction request (newDx, newDy) of the page of socket id: it is handed to
\* the local Snake and emitted to the server, whose handler runs on it.  (The
\* keydown handler of the page makes such requests for the arrow keys.)
DirectionRequest(id, newDx, newDy) ==
    /\ localSnake' = changeDirection(localSnake, newDx, newDy)
    /\ intent' = [id |-> id, newDx |-> newDx, newDy |-> newDy,
                  player |-> players[id], snake |-> localSnake]
    /\ UNCHANGED <<remotePlayers, currentView, inbox, spawning>>
    /\ playerDirectionChange(id, newDx, newDy)

(* ------------------------------------------------------------------ *)
(* Specifications                                                      *)
(* ------------------------------------------------------------------ *)
\* the exploration stops starting rounds after MaxRounds and stops ticking a
\* round after MaxTicks
StartsRound(id) ==
    /\ gameState = "lobby"
    /\ checkAllPlayersReady([players EXCEPT ![id].isReady = ~players[id].isReady])
ToggleInBounds(id) == id \in DOMAIN players /\ (StartsRound(id) => rounds < MaxRounds)
TickInBounds == TickRuns => ticks < MaxTicks

\* socket ids are interchangeable: a new connection takes the least unused one
NewSocket(id, ids) == \A k \in ids \ DOMAIN players : id <= k

\* a step of the server alone
ServerOnly == UNCHANGED <<clientVars, spawning>>

\* from server start, with MaxSessionPlayers sockets
Next ==
    \/ events < MaxEvents /\ ServerOnly
         /\ \E id \in SessionIds : NewSocket(id, SessionIds) /\ Join(id)
    \/ events < MaxEvents /\ ServerOnly
         /\ \E id \in SessionIds : ToggleInBounds(id) /\ playerReadyToggle(id)
    \/ events < MaxEvents /\ ServerOnly
         /\ \E id \in SessionIds : disconnect(id)
    \/ events < MaxEvents /\ ServerOnly
         /\ \E id \in SessionIds : \E newDx \in IntentValues :
                \E newDy \in IntentValues : playerDirectionChange(id, newDx, newDy)
    \/ events < MaxEvents /\ ServerOnly
         /\ \E id \in SessionIds : requestChangeGamemode(id)
    \/ TickInBounds /\ ServerOnly /\ Tick

Spec == Init /\ [][Next]_vars

\* The server right after startGame of a first round: n sockets connected in
\* the order 1..n, all toggled ready, gamemode mode selected.
RoundStarted(n, mode) ==
    LET P == [id \in 1..n |-> [initializeLobbyPlayer EXCEPT !.isReady = TRUE]]
        ord == [k \in 1..n |-> k]
    IN  /\ gameState = "ingame"
        /\ currentGamemode = mode
        /\ activeGamemode = mode
        /\ teamScore = 0
        /\ order = ord
        /\ \E Q \in SetupFrom(P, ord, 1) : \E f \in spawnFood(Q) :
               players = Q /\ food = f
        /\ emitted = <<Msg("lobbyUpdate"), Msg("gameStarting")>>
        /\ lastEvent = "playerReadyToggle"
        /\ hung = FALSE
        /\ startCount = n
        /\ ticks = 0
        /\ rounds = 1
        /\ events = 0
        /\ prev = NoTick
        /\ startLength = [id \in 1..n |-> Len(players[id].body)]
        /\ movedBy = [id \in 1..n |-> <<0, 0>>]
        /\ toggled = [id |-> n, n |-> 1, wasReady |-> FALSE, othersReady |-> TRUE,
                      inLobby |-> TRUE]
        /\ leftInRound = FALSE
        /\ spawning = NoSpawning

InitRound ==
    /\ \E n \in 1..MaxPlayers : \E mode \in {"competitive", "cooperative"} :
           RoundStarted(n, mode)
    /\ NoClient

\* a round: direction intents and ticks
NextRound ==
    \/ events < MaxRoundEvents /\ ServerOnly
         /\ \E id \in Ids : \E newDx \in IntentValues :
                \E newDy \in IntentValues : playerDirectionChange(id, newDx, newDy)
    \/ TickInBounds /\ ServerOnly /\ Tick

SpecRound == InitRound /\ [][NextRound]_vars

\* the page after socket.on('gameStarting') of a first round: showView('game'),
\* then initializeGame, which makes localSnake and throws
gameStarting ==
    /\ localSnake = initializeGame(players[socketId])
    /\ intent = NoIntent
    /\ remotePlayers = <<>>
    /\ currentView = "game"
    /\ inbox = <<>>

\* The page of socket 1 and the server right after the start of a one-player
\* round, before the first tick.
InitIntent ==
    /\ \E mode \in {"competitive", "cooperative"} : RoundStarted(1, mode)
    /\ gameStarting

\* the direction requests between two ticks of the server
NextIntent ==
    \/ events < MaxIntents /\ \E newDx \in IntentValues : \E newDy \in IntentValues :
           DirectionRequest(1, newDx, newDy)

SpecIntent == InitIntent /\ [][NextIntent]_vars

\* The page of socket 1 and the server right after the start of a round.
InitPage ==
    /\ \E n \in 1..MaxPlayers : \E mode \in {"competitive", "cooperative"} :
           RoundStarted(n, mode)
    /\ gameStarting

\* a round seen from the page: key presses on the page, direction requests of
\* the other players, ticks of the server whose messages travel to the page,
\* and the handlers of the page
NextPage ==
    \/ events < MaxPageEvents /\ \E newDx \in IntentValues : \E newDy \in IntentValues :
           DirectionRequest(socketId, newDx, newDy)
    \/ events < MaxPageEvents /\ ServerOnly
         /\ \E id \in Ids \ {socketId} : \E newDx \in IntentValues :
                \E newDy \in IntentValues : playerDirectionChange(id, newDx, newDy)
    \/ TickRuns /\ TickInBounds /\ Tick /\ inbox' = Sent
         /\ UNCHANGED <<localSnake, intent, remotePlayers, currentView, spawning>>
    \/ gameStateUpdate
    \/ gameOverToLobby

SpecPage == InitPage /\ [][NextPage]_vars

\* the variables of the server that a tick reads or writes
serverVars == <<gameState, currentGamemode, activeGamemode, teamScore, players, order,
                food, emitted, lastEvent, hung, startCount, ticks, rounds, events, prev,
                startLength, movedBy, toggled, leftInRound>>

\* the players as loop 2 of the running tick leaves them: what the do/while of
\* spawnFood scans
ScannedBySpawnFood == MoveAll(players, food)

\* nothing else runs while the callback is in spawnFood or about to go on
InCallback == spawning.active \/ spawning.returned

\* a tick in which no snake eats (or a tick in the lobby) does not call spawnFood
TickWithoutFood ==
    /\ ~InCallback
    /\ ~TickRuns \/ Eaters(players, food) = {}
    /\ Tick
    /\ UNCHANGED spawning

\* a tick in which a snake ate reaches the call of spawnFood
TickCallsSpawnFood ==
    /\ ~hung /\ ~InCallback
    /\ TickRuns /\ Eaters(players, food) # {}
    /\ spawning' = [active |-> TRUE, cell |-> food, rejected |-> FALSE, returned |-> FALSE]
    /\ UNCHANGED serverVars

\* one pass of the do/while of spawnFood with Math.random giving cell c: on a
\* living snake the loop goes round again, else spawnFood returns
spawnFoodSample(c) ==
    /\ spawning.active
    /\ spawning' = [active |-> c \notin spawnFood(ScannedBySpawnFood), cell |-> c,
                    rejected |-> spawning.rejected \/ c \notin spawnFood(ScannedBySpawnFood),
                    returned |-> c \in spawnFood(ScannedBySpawnFood)]
    /\ UNCHANGED serverVars
    /\ UNCHANGED clientVars

\* spawnFood has returned with food = spawning.cell: the tick runs to its end
TickAfterSpawnFood ==
    /\ spawning.returned
    /\ Tick
    /\ food' = spawning.cell
    /\ spawning' = [spawning EXCEPT !.returned = FALSE]
    /\ UNCHANGED clientVars

\* a round with the food respawn of its ticks taken pass by pass
NextFood ==
    \/ events < MaxFoodEvents /\ ~InCallback /\ ServerOnly
         /\ \E id \in Ids : \E newDx \in IntentValues :
                \E newDy \in IntentValues : playerDirectionChange(id, newDx, newDy)
    \/ ticks < MaxFoodTicks /\ UNCHANGED clientVars /\ TickWithoutFood
    \/ ticks < MaxFoodTicks /\ UNCHANGED clientVars /\ TickCallsSpawnFood
    \/ \E c \in Grid : spawnFoodSample(c)
    \/ TickAfterSpawnFood

\* Math.random is fair: a cell that ends the loop, if there is one, is drawn
\* sooner or later; the callback then runs on
spawnFoodReturns ==
    /\ spawning.active
    /\ \E c \in spawnFood(ScannedBySpawnFood) :
          spawning' = [active |-> FALSE, cell |-> c, rejected |-> spawning.rejected,
                       returned |-> TRUE]
    /\ UNCHANGED serverVars
    /\ UNCHANGED clientVars
\* spawnFood is called inside the timer callback: once it has returned, the
\* callback goes on to its end (the step of NextFood that does so is
\* TickAfterSpawnFood)
callbackGoesOn == spawning.returned /\ spawning' = [spawning EXCEPT !.returned = FALSE]
FairSampling == WF_vars(spawnFoodReturns) /\ WF_spawning(callbackGoesOn)

SpecFood == InitRound /\ [][NextFood]_vars /\ FairSampling

\* a round in which no directionIntent, connection or disconnect arrives: only
\* the timer fires
NextQuiet == ticks < MaxQuietTicks /\ ServerOnly /\ Tick

\* setInterval keeps firing the callback every 100 ms: during a round the
\* callback runs again and counts one more tick (the step of NextQuiet that does
\* so is Tick)
timerFires == gameState = "ingame" /\ ~hung /\ ticks < MaxQuietTicks /\ ticks' = ticks + 1
FairTimer == WF_ticks(timerFires)

SpecQuiet == InitRound /\ [][NextQuiet]_vars /\ FairTimer

(* ------------------------------------------------------------------ *)
(* Properties                                                          *)
(* ------------------------------------------------------------------ *)
\* the last step was a tick that found the session in a round and ran to its end
TickRan == lastEvent = "tick" /\ prev.gameState = "ingame" /\ ~hung
\* the last step was the timer firing in the lobby
TickInLobby == lastEvent = "tick" /\ prev.gameState = "lobby"

\* C1: a timer firing while the session is in the lobby changes no player
\* (body, direction, alive flag, score), not the food, not the team score, not
\* the session state, and emits nothing.
C1_TickOnlyInRound ==
    TickInLobby =>
        /\ players = prev.players
        /\ food = prev.food
        /\ teamScore = prev.teamScore
        /\ currentGamemode = prev.currentGamemode
        /\ gameState = "lobby"
        /\ emitted = <<>>

\* the timer fired in a lobby that holds the living winner of a finished round
C1_Witness ==
    /\ TickInLobby
    /\ rounds > 0
    /\ \E id \in DOMAIN players : players[id].isAlive /\ Len(players[id].body) > 0

\* C2: a playerReadyToggle handled in the lobby flips exactly one readiness flag
\* (the caller's) and starts the round, with the round set up, iff afterwards
\* there is a player and every player is ready; otherwise the lobby stays as it
\* was but for that flag.
C2_Step ==
    (gameState = "lobby" /\ lastEvent' = "playerReadyToggle" /\ ~hung') =>
        LET flipped == {id \in DOMAIN players : players'[id].isReady # players[id].isReady}
            allReady == DOMAIN players' # {} /\ \A id \in DOMAIN players' : players'[id].isReady
        IN  /\ DOMAIN players' = DOMAIN players
            /\ Cardinality(flipped) = 1
            /\ (gameState' = "ingame") <=> allReady
            /\ gameState' \in {"lobby", "ingame"}
            /\ gameState' = "ingame" =>
                   /\ activeGamemode' = currentGamemode
                   /\ teamScore' = 0
                   /\ food' \in Grid
                   /\ \A id \in DOMAIN players' :
                          /\ players'[id].isAlive
                          /\ players'[id].score = 0
                          /\ players'[id].dx = 1 /\ players'[id].dy = 0
                          /\ Len(players'[id].body) >= 1
                   /\ emitted' = <<Msg("lobbyUpdate"), Msg("gameStarting")>>
            /\ gameState' = "lobby" =>
                   /\ \A id \in DOMAIN players :
                          [players'[id] EXCEPT !.isReady = players[id].isReady] = players[id]
                   /\ UNCHANGED <<activeGamemode, teamScore, food, currentGamemode>>
                   /\ emitted' = <<Msg("lobbyUpdate")>>
C2_ToggleReady == [][C2_Step]_vars

\* the second of two players toggled ready and the round started
C2_Witness ==
    /\ lastEvent = "playerReadyToggle"
    /\ gameState = "ingame"
    /\ Cardinality(DOMAIN players) = 2
    /\ \A id \in DOMAIN players : players[id].isReady /\ players[id].isAlive

\* the threshold the claim of C3 states: fixed by the player count at round start
ThresholdAtStart == IF startCount >= 2 THEN 1 ELSE 0

\* C3 (as claimed): a competitive tick ends the round exactly when the living
\* count after collision resolution is <= 1 for a round started by >= 2 players,
\* 0 for a round started by one player, whoever joined or left since.
C3_Claimed ==
    (TickRan /\ activeGamemode = "competitive") =>
        ((gameState = "lobby") <=> (alivePlayersCount(players) <= ThresholdAtStart))

\* C4: a cooperative tick returns the session to the lobby iff no snake is alive
\* after the tick.
C4_CooperativeEnd ==
    (TickRan /\ activeGamemode = "cooperative") =>
        ((gameState = "lobby") <=> (alivePlayersCount(players) = 0))

\* a cooperative round of two players ended by the tick in which the last died
C4_Witness ==
    /\ TickRan
    /\ activeGamemode = "cooperative"
    /\ gameState = "lobby"
    /\ Cardinality(DOMAIN players) = 2
    /\ \E id \in DOMAIN prev.players : prev.players[id].isAlive

\* the snakes of the last tick that passed their own wall and self checks
PassedOwnChecks == {id \in DOMAIN prev.players : AliveAfterOwnChecks(prev.players[id], prev.food)}
\* the head a snake of the last tick was about to move to
Candidate(id) == pendingHead(prev.players[id])
TickRanCompetitive == TickRan /\ activeGamemode = "competitive"

C6_HeadToHead ==
    TickRanCompetitive =>
        \A A \in PassedOwnChecks : \A B \in PassedOwnChecks \ {A} :
            Candidate(A) = Candidate(B) => ~players[A].isAlive /\ ~players[B].isAlive

\* two of three moving snakes met head to head
C6_Witness ==
    /\ TickRanCompetitive
    /\ Cardinality(PassedOwnChecks) = 3
    /\ \E A \in PassedOwnChecks : \E B \in PassedOwnChecks \ {A} :
           /\ Candidate(A) = Candidate(B)
           /\ ~players[A].isAlive /\ ~players[B].isAlive

\* the last tick was a tick of a competitive round of the two players A and B,
\* both alive before it, in which A's head moved onto a cell of B's body and B's
\* head moved neither onto A's head nor onto A's body
HeadIntoBody(A, B) ==
    /\ TickRanCompetitive
    /\ DOMAIN prev.players = {A, B} /\ A # B
    /\ prev.players[A].isAlive /\ prev.players[B].isAlive
    /\ A \in PassedOwnChecks
    /\ Candidate(A) \in Cells(players[B].body)
    /\ Candidate(B) # Candidate(A)
    /\ Candidate(B) \notin Cells(players[A].body)
    /\ Candidate(B) \notin Cells(prev.players[A].body)

\* C7 (as claimed): in such a tick A ends not alive, B alive, and the session
\* is back in the lobby.
C7_Claimed ==
    \A A \in DOMAIN prev.players : \A B \in DOMAIN prev.players :
        HeadIntoBody(A, B) =>
            ~players[A].isAlive /\ players[B].isAlive /\ gameState = "lobby"

\* C7 (amended): the same, provided B itself passes its wall and self checks in
\* that tick; B then has moved as it would have alone.
C7_HeadToBodyEndsDuel ==
    \A A \in DOMAIN prev.players : \A B \in DOMAIN prev.players :
        (HeadIntoBody(A, B) /\ B \in PassedOwnChecks) =>
            /\ ~players[A].isAlive
            /\ players[B].isAlive
            /\ players[B].body = Advance(BodyAfterFood(prev.players[B], prev.food), Candidate(B))
            /\ players[B].body[1] = Candidate(B)
            /\ gameState = "lobby"
            /\ emitted = <<Msg("gameOverToLobby")>>

C7_Witness ==
    \E A \in DOMAIN prev.players : \E B \in DOMAIN prev.players :
        /\ HeadIntoBody(A, B) /\ B \in PassedOwnChecks
        /\ ~players[A].isAlive /\ players[B].isAlive /\ gameState = "lobby"

\* the key orders a player map with these keys can have
KeyOrders(ord) ==
    {q \in [1..Len(ord) -> {ord[i] : i \in 1..Len(ord)}] :
        \A i \in 1..Len(ord) : \A j \in 1..Len(ord) : q[i] = q[j] => i = j}

AliveAfterTick(ord) ==
    LET P == AfterCollisions(players, ord, food, activeGamemode)
    IN  {id \in DOMAIN P : P[id].isAlive}

\* C8 (as claimed): from every state of a competitive round with three or more
\* snakes, a tick leaves the same snakes alive whatever the key order of the
\* player map.
C8_Claimed ==
    (gameState = "ingame" /\ ~hung /\ activeGamemode = "competitive"
        /\ Cardinality({id \in DOMAIN players : Moves(players[id])}) >= 3) =>
        \A q \in KeyOrders(order) : AliveAfterTick(q) = AliveAfterTick(order)

\* C9 (as claimed): a living snake that does not eat in a tick and whose
\* candidate head is its own last body cell, and no other cell of its body,
\* commits the move and, where no other snake can kill it, stays alive.
C9_Claimed ==
    TickRan =>
        \A id \in DOMAIN prev.players :
            LET p == prev.players[id]
            IN  (/\ Moves(p)
                 /\ ~AteFood(p, prev.food)
                 /\ Candidate(id) = Last(p.body)
                 /\ \A i \in 1..(Len(p.body) - 1) : p.body[i] # Candidate(id)) =>
                    /\ players[id].body = Advance(p.body, Candidate(id))
                    /\ activeGamemode = "cooperative" => players[id].isAlive

AteInTick(id) == IF AteFood(prev.players[id], prev.food) THEN 1 ELSE 0

\* C11: in every state every snake's body is as long as it was when its round
\* started plus its score, and a tick lengthens the body of a snake by exactly
\* 1 and raises its score by exactly 1 if the snake ate in it, and leaves both
\* as they were if it did not (so the length never decreases).
C11_Length ==
    /\ \A id \in DOMAIN players :
           HasPosition(players[id]) =>
               /\ id \in DOMAIN startLength
               /\ Len(players[id].body) = startLength[id] + players[id].score
    /\ TickRan =>
           \A id \in DOMAIN players :
               /\ Len(players[id].body) = Len(prev.players[id].body) + AteInTick(id)
               /\ players[id].score = prev.players[id].score + AteInTick(id)

\* a snake ate in each of two ticks and is two cells longer than at the start
C11_Witness ==
    /\ TickRan
    /\ \E id \in DOMAIN players :
           /\ AteInTick(id) = 1
           /\ players[id].score = 2
           /\ Len(players[id].body) = startLength[id] + 2

\* C12: a snake whose candidate head is outside the grid is not alive after the
\* tick and keeps the body it had, and in every state every cell of every
\* body is a cell of the grid.
C12_WallKills ==
    /\ \A id \in DOMAIN players : Cells(players[id].body) \subseteq Grid
    /\ TickRan =>
           \A id \in DOMAIN prev.players :
               (Moves(prev.players[id]) /\ Candidate(id) \notin Grid) =>
                   /\ ~players[id].isAlive
                   /\ players[id].body = prev.players[id].body

\* a snake turned up and left the grid through the top edge while another,
\* whose body was clipped at the left edge when the round started, moved on
C12_Witness ==
    /\ TickRan
    /\ \E id \in DOMAIN prev.players :
           /\ Moves(prev.players[id])
           /\ Candidate(id).y < 0
           /\ ~players[id].isAlive
    /\ \E id \in DOMAIN players :
           /\ players[id].isAlive
           /\ startLength[id] < InitialSegments

\* the last step was the toggle that started a round
RoundJustStarted ==
    /\ lastEvent = "playerReadyToggle"
    /\ emitted = <<Msg("lobbyUpdate"), Msg("gameStarting")>> /\ ~hung
\* the last step was a tick in which a snake ate, so that food was spawned
FoodRespawned == TickRan /\ \E id \in DOMAIN prev.players : AteInTick(id) = 1

\* C13: the food spawned at a round start is a grid cell on no snake's body
\* (every snake is alive then), and the food spawned in a tick is a grid cell on
\* the body of no snake that was alive when it was spawned, that is, of no
\* snake that passed its wall and self checks in that tick.
C13_FoodOffSnakes ==
    /\ RoundJustStarted =>
           /\ food \in Grid
           /\ \A id \in DOMAIN players :
                  players[id].isAlive /\ food \notin Cells(players[id].body)
    /\ FoodRespawned =>
           /\ food \in Grid
           /\ \A id \in PassedOwnChecks : food \notin Cells(players[id].body)

\* food was spawned in a tick in which three snakes moved on
C13_Witness ==
    /\ FoodRespawned
    /\ Cardinality(PassedOwnChecks) = 3
    /\ food # prev.food

\* C14: a snake that passes its wall and self checks in a tick has afterwards
\* its old head + (dx, dy) as head; if that cell was not the food, the rest of
\* its body is the old body without its last cell, and length and score are
\* unchanged; if it was the food, the rest of its body is the whole old body,
\* and length and score are both greater by exactly 1.
C14_TickStep ==
    TickRan =>
        \A id \in PassedOwnChecks :
            LET p == prev.players[id]
                q == players[id]
                head == Cell(p.body[1].x + p.dx, p.body[1].y + p.dy)
            IN  /\ q.body[1] = head
                /\ IF head # prev.food
                   THEN /\ q.body = <<head>> \o SubSeq(p.body, 1, Len(p.body) - 1)
                        /\ Len(q.body) = Len(p.body)
                        /\ q.score = p.score
                   ELSE /\ q.body = <<head>> \o p.body
                        /\ Len(q.body) = Len(p.body) + 1
                        /\ q.score = p.score + 1

\* in one tick a snake of three cells moved without eating and another snake
\* ate its first food
C14_Witness ==
    /\ TickRan
    /\ \E id \in PassedOwnChecks :
           /\ AteInTick(id) = 0
           /\ Len(prev.players[id].body) = InitialSegments
           /\ Len(players[id].body) = InitialSegments
    /\ \E id \in PassedOwnChecks :
           /\ AteInTick(id) = 1
           /\ players[id].score = 1

\* the last step was the handling of a direction request
RequestHandled == lastEvent = "playerDirectionChange" /\ intent.id \in DOMAIN players
\* the request asked for the exact reverse of the direction the snake had
IsReversal ==
    /\ intent.player.dx # 0 \/ intent.player.dy # 0
    /\ intent.newDx = -intent.player.dx
    /\ intent.newDy = -intent.player.dy

\* C15: the server's handler leaves the player as it was, direction included,
\* when the request is the exact reverse (-dx, -dy) of the moving snake's
\* direction (dx, dy).
C15_ReversalRejected ==
    (RequestHandled /\ IsReversal) => players[intent.id] = intent.player

\* a snake that had turned up was asked to go down and kept going up
C15_Witness ==
    /\ RequestHandled /\ IsReversal
    /\ intent.player.dy = -1 /\ intent.newDy = 1
    /\ players[intent.id].dx = 0 /\ players[intent.id].dy = -1

\* C16 (as claimed): at most one direction change takes effect between two
\* ticks, so a snake that moves in a tick does not move by the exact reverse of
\* what it moved by in the tick before.
C16_Claimed ==
    TickRan =>
        \A id \in PassedOwnChecks :
            (id \in DOMAIN prev.movedBy /\ prev.movedBy[id] # <<0, 0>>) =>
                <<prev.players[id].dx, prev.players[id].dy>> #
                    <<-prev.movedBy[id][1], -prev.movedBy[id][2]>>

\* the request had components in {-1, 0, 1} and met the same direction, one of
\* the four unit directions, on the page and on the server
InProtocol == intent.newDx \in {-1, 0, 1} /\ intent.newDy \in {-1, 0, 1}
SamePriorDirection ==
    /\ intent.player.dx = intent.snake.dx /\ intent.player.dy = intent.snake.dy
    /\ <<intent.player.dx, intent.player.dy>> \in {<<1, 0>>, <<-1, 0>>, <<0, 1>>, <<0, -1>>}
\* the decisions the two sides made on the request
ServerAccepted == DirectionAccepted(intent.player, intent.newDx, intent.newDy)
ClientAccepted == localSnake # intent.snake

\* C17 (as claimed): a request with components in {-1, 0, 1} that meets the same
\* direction on the page and on the server, whatever the page's lock, is
\* accepted by both or rejected by both and leaves both with the same direction.
C17_Claimed ==
    (RequestHandled /\ InProtocol /\ SamePriorDirection) =>
        /\ ServerAccepted <=> ClientAccepted
        /\ players[intent.id].dx = localSnake.dx
        /\ players[intent.id].dy = localSnake.dy

\* C18 (as claimed): requests with a component outside {-1, 0, 1} are ignored,
\* so in every state the direction of every snake has components in
\* {-1, 0, 1}, exactly one of them non-zero.
C18_Claimed ==
    \A id \in DOMAIN players :
        HasPosition(players[id]) =>
            /\ players[id].dx \in {-1, 0, 1}
            /\ players[id].dy \in {-1, 0, 1}
            /\ (players[id].dx = 0) # (players[id].dy = 0)

\* C19 (as claimed): a playerReadyToggle handled while a round is running
\* changes no player and emits nothing.
C19_Step ==
    (gameState = "ingame" /\ ~hung /\ lastEvent' = "playerReadyToggle") =>
        /\ players' = players
        /\ emitted' = <<>>
C19_Claimed == [][C19_Step]_vars

\* C20: a requestChangeGamemode handled while a round is running changes
\* neither gamemode (nor anything else of the session) and emits nothing; the
\* step that starts a round makes the selected gamemode the active one; no
\* step taken during a round changes the active or the selected gamemode, so
\* that throughout the round both are the gamemode selected when it started.
C20_Step ==
    /\ (gameState = "ingame" /\ lastEvent' = "requestChangeGamemode") =>
           /\ UNCHANGED <<currentGamemode, activeGamemode, gameState, players, food, teamScore>>
           /\ emitted' = <<>>
    /\ (gameState = "lobby" /\ gameState' = "ingame") =>
           activeGamemode' = currentGamemode /\ currentGamemode' = currentGamemode
    /\ (gameState = "ingame" /\ gameState' = "ingame") =>
           activeGamemode' = activeGamemode /\ currentGamemode' = currentGamemode
    /\ gameState' = "ingame" => activeGamemode' = currentGamemode'
C20_GamemodeLocked == [][C20_Step]_vars

\* a gamemode request was handled during a cooperative round
C20_Witness ==
    /\ lastEvent = "requestChangeGamemode"
    /\ gameState = "ingame"
    /\ activeGamemode = "cooperative"
    /\ currentGamemode = "cooperative"
    /\ ticks > 0

\* the last two steps were playerReadyToggle events of the same player, the
\* first of them handled in the lobby
ToggledTwice == toggled.n = 2 /\ toggled.inLobby /\ toggled.id \in DOMAIN players

\* C21 (as claimed): after a player that was not ready toggles twice in
\* succession from a lobby state, it is not ready and the session is still in
\* the lobby, whether or not all other players were ready.
C21_Claimed ==
    (ToggledTwice /\ ~toggled.wasReady) =>
        ~players[toggled.id].isReady /\ gameState = "lobby"

\* C21 (amended): after a player toggles twice in succession from a lobby
\* state its readiness is what it was before, and the session is still in the
\* lobby iff some other player was not ready; if every other player was ready
\* (or there is no other), the toggle that made the player ready started the
\* round.
C21_ToggleTwice ==
    ToggledTwice =>
        /\ players[toggled.id].isReady = toggled.wasReady
        /\ (gameState = "lobby") <=> ~toggled.othersReady
        /\ gameState \in {"lobby", "ingame"}

\* one of two players toggled twice while the other was not ready
C21_Witness ==
    /\ ToggledTwice
    /\ ~toggled.wasReady /\ ~toggled.othersReady
    /\ Cardinality(DOMAIN players) = 2
    /\ ~players[toggled.id].isReady
    /\ gameState = "lobby"

\* the last step was a tick that ended the round
RoundEnded == TickRan /\ gameShouldEnd(AfterCollisions(prev.players, order, prev.food, activeGamemode), activeGamemode)

\* C22: after a tick that ends the round the session is in the lobby, every
\* player is not ready and the selected gamemode is competitive.
C22_RoundEndResets ==
    RoundEnded =>
        /\ gameState = "lobby"
        /\ \A id \in DOMAIN players : ~players[id].isReady
        /\ currentGamemode = "competitive"

\* a cooperative round of two ready players ended
C22_Witness ==
    /\ RoundEnded
    /\ prev.currentGamemode = "cooperative"
    /\ Cardinality(DOMAIN players) = 2
    /\ \A id \in DOMAIN prev.players : prev.players[id].isReady
    /\ gameState = "lobby"

\* C23: a tick of a running round emits exactly one message: gameOverToLobby
\* if it ended the round, gameStateUpdate if it did not.
C23_OneBroadcast ==
    TickRan =>
        /\ Len(emitted) = 1
        /\ RoundEnded => emitted[1].msg = "gameOverToLobby"
        /\ ~RoundEnded => emitted[1].msg = "gameStateUpdate" /\ gameState = "ingame"

\* a tick ended a competitive round of three with one survivor
C23_Witness ==
    /\ RoundEnded
    /\ emitted = <<Msg("gameOverToLobby")>>
    /\ Cardinality(DOMAIN players) = 3
    /\ alivePlayersCount(players) = 1

\* C24 (as claimed): the tick that emits gameOverToLobby goes on to emit a
\* lobbyUpdate, so that the lobby snapshot reaches the clients before any of
\* them sends a further event.
C24_Claimed ==
    RoundEnded =>
        \E i, j \in 1..Len(emitted) :
            /\ i < j
            /\ emitted[i].msg = "gameOverToLobby"
            /\ emitted[j].msg = "lobbyUpdate"

\* C25: a connection during a round adds one player entry that is not ready
\* and has no snake, and changes neither the session state, the active
\* gamemode, the food, the team score nor any existing player's body,
\* direction, alive flag or score.
C25_Step ==
    (gameState = "ingame" /\ lastEvent' = "connection" /\ events' = events + 1) =>
        /\ \E id \in DOMAIN players' \ DOMAIN players :
               /\ DOMAIN players' = DOMAIN players \cup {id}
               /\ ~players'[id].isReady
               /\ ~HasPosition(players'[id])
               /\ ~players'[id].isAlive
        /\ \A k \in DOMAIN players : players'[k] = players[k]
        /\ gameState' = "ingame"
        /\ UNCHANGED <<activeGamemode, food, teamScore>>
C25_JoinInRound == [][C25_Step]_vars

\* somebody connected while a snake that has moved is alive
C25_Witness ==
    /\ lastEvent = "connection"
    /\ gameState = "ingame"
    /\ ticks > 0
    /\ \E id, k \in DOMAIN players :
           /\ ~HasPosition(players[id]) /\ ~players[id].isReady
           /\ HasPosition(players[k]) /\ players[k].isAlive

\* C26: a disconnect during a round that leaves at least one player removes
\* only the leaver's entry, emits playerDisconnected with the leaver's id,
\* keeps the session in the round and changes neither the food, the team
\* score, the active gamemode nor any remaining player's body, direction,
\* alive flag or score.
C26_Step ==
    (/\ gameState = "ingame" /\ lastEvent' = "disconnect" /\ events' = events + 1
     /\ DOMAIN players' # {}) =>
        /\ \E id \in DOMAIN players :
               /\ DOMAIN players' = DOMAIN players \ {id}
               /\ emitted' = <<[msg |-> "playerDisconnected", id |-> id]>>
        /\ \A k \in DOMAIN players' : players'[k] = players[k]
        /\ gameState' = "ingame"
        /\ UNCHANGED <<activeGamemode, food, teamScore>>
C26_LeaveInRound == [][C26_Step]_vars

\* a player left a round in which the snake that stays is alive and has moved
C26_Witness ==
    /\ lastEvent = "disconnect"
    /\ gameState = "ingame"
    /\ ticks > 0
    /\ Len(emitted) = 1 /\ emitted[1].msg = "playerDisconnected"
    /\ emitted[1].id \notin DOMAIN players
    /\ \E k \in DOMAIN players : HasPosition(players[k]) /\ players[k].isAlive

\* C27 (as claimed): right after a round start with two or more players no
\* grid cell belongs to the bodies of two different snakes.
C27_Claimed ==
    (RoundJustStarted /\ Cardinality(DOMAIN players) >= 2) =>
        \A a, b \in DOMAIN players :
            a # b => Cells(players[a].body) \cap Cells(players[b].body) = {}

\* every player of p has the direction, score and alive flag of a round start
\* and a horizontal run of n(head) cells inside the grid, head rightmost
SetUpWith(n(_)) ==
    \A id \in DOMAIN players :
        LET p == players[id]
        IN  /\ p.isAlive /\ p.score = 0 /\ p.dx = 1 /\ p.dy = 0
            /\ Len(p.body) >= 1
            /\ Len(p.body) = n(p.body[1])
            /\ \A k \in 1..Len(p.body) :
                   p.body[k] = Cell(p.body[1].x - (k - 1), p.body[1].y)
            /\ Cells(p.body) \subseteq Grid
ThreeCells(head) == 3
ClippedAtLeftEdge(head) == IF head.x >= 2 THEN 3 ELSE head.x + 1

\* C28 (as claimed): right after round setup every player is alive with score
\* 0, direction (1,0) and a body of exactly 3 cells forming a horizontal run
\* with the head rightmost, all inside the grid.
C28_Claimed == RoundJustStarted => SetUpWith(ThreeCells)

\* C28 (amended): right after round setup every player is alive with score 0,
\* direction (1,0) and a body that is a horizontal run inside the grid with the
\* head rightmost, of 3 cells if the head is at column 2 or further right and
\* of head.x + 1 cells (1 or 2) if it is nearer to the left edge.
C28_Setup == RoundJustStarted => SetUpWith(ClippedAtLeftEdge)

\* a round of two just started with a snake of 3 cells and a snake of 1 cell
C28_Witness ==
    /\ RoundJustStarted
    /\ \E a, b \in DOMAIN players :
           Len(players[a].body) = 3 /\ Len(players[b].body) = 1

\* the players whose score a step raised by 1: the food consumptions of a tick
Consumptions == {id \in DOMAIN players \cap DOMAIN players' :
                    players'[id].score = players[id].score + 1}

\* C29: the team score is 0 when a round starts; while the session stays in
\* the round it never decreases, only a tick changes it, and a tick of a
\* cooperative round raises it by exactly 1 for each food consumption of that
\* tick (a tick of a competitive round leaves it as it is).
C29_Step ==
    /\ (gameState = "lobby" /\ gameState' = "ingame") => teamScore' = 0
    /\ (gameState = "ingame" /\ gameState' = "ingame") => teamScore' >= teamScore
    /\ (gameState = "ingame" /\ lastEvent' # "tick") => teamScore' = teamScore
    /\ (gameState = "ingame" /\ lastEvent' = "tick" /\ ticks' = ticks + 1) =>
           teamScore' = teamScore + (IF activeGamemode = "cooperative"
                                     THEN Cardinality(Consumptions) ELSE 0)
C29_TeamScore == [][C29_Step]_vars

\* a tick of a cooperative round in which two snakes ate
C29_Witness ==
    /\ TickRan
    /\ activeGamemode = "cooperative"
    /\ gameState = "ingame"
    /\ teamScore = prev.teamScore + 2
    /\ Cardinality({id \in DOMAIN players : players[id].score = 1}) = 2

\* C30: in a cooperative round a snake that was alive before a tick is not
\* alive after it only if its candidate head is outside the grid or on a cell
\* of its own body.
C30_NoCrossKill ==
    (TickRan /\ activeGamemode = "cooperative") =>
        \A id \in DOMAIN prev.players :
            (prev.players[id].isAlive /\ ~players[id].isAlive) =>
                \/ Candidate(id) \notin Grid
                \/ Candidate(id) \in Cells(prev.players[id].body)

\* after a tick of a cooperative round two snakes are alive with the same head
\* cell, and a third is alive with its head on the body of another
C30_Witness ==
    /\ TickRan /\ activeGamemode = "cooperative"
    /\ \E a, b, c \in DOMAIN players :
           /\ a # b /\ c # a /\ c # b
           /\ players[a].isAlive /\ players[b].isAlive /\ players[c].isAlive
           /\ prev.players[a].body # players[a].body
           /\ prev.players[b].body # players[b].body
           /\ players[a].body[1] = players[b].body[1]
           /\ players[c].body[1] # players[a].body[1]
           /\ players[c].body[1] \in Cells(players[a].body)

\* C34 (as claimed): the session is never left in the lobby with at least one
\* player present and every present player ready.
C34_Claimed ==
    (gameState = "lobby" /\ ~hung /\ DOMAIN players # {}) =>
        \E id \in DOMAIN players : ~players[id].isReady

\* C37 (as claimed): every step that takes the session from a round back to
\* the lobby leaves the selected gamemode competitive and every present player
\* not ready, the disconnect of the last player included.
C37_Step ==
    (gameState = "ingame" /\ gameState' = "lobby") =>
        /\ currentGamemode' = "competitive"
        /\ \A id \in DOMAIN players' : ~players'[id].isReady
C37_Claimed == [][C37_Step]_vars

RECURSIVE SumOfScores(_, _)
SumOfScores(P, ids) ==
    IF ids = {} THEN 0
    ELSE LET id == CHOOSE k \in ids : TRUE
         IN  P[id].score + SumOfScores(P, ids \ {id})

\* C38: in every state of a cooperative round in which no player has left
\* since the round started the team score is the sum of the players' scores,
\* and in every state of a competitive round the team score is 0.
C38_TeamScoreIsSum ==
    (gameState = "ingame") =>
        /\ (activeGamemode = "cooperative" /\ ~leftInRound) =>
               teamScore = SumOfScores(players, DOMAIN players)
        /\ activeGamemode = "competitive" => teamScore = 0

\* a cooperative round that nobody left and in which two snakes have eaten
C38_Witness ==
    /\ gameState = "ingame" /\ activeGamemode = "cooperative" /\ ~leftInRound
    /\ teamScore = 2
    /\ \E a, b \in DOMAIN players : a # b /\ players[a].score = 1 /\ players[b].score = 1

\* C39 (as claimed): right after round setup the first candidate head of
\* every snake, head + (1,0), is inside the grid, so that the first tick of a
\* round without direction requests kills no snake against the wall.
C39_Claimed ==
    RoundJustStarted =>
        \A id \in DOMAIN players :
            /\ pendingHead(players[id]) = Cell(players[id].body[1].x + 1, players[id].body[1].y)
            /\ pendingHead(players[id]) \in Grid

\* the fields of a player that the sections of a tick write
SnakeOf(p) == [body |-> p.body, dx |-> p.dx, dy |-> p.dy, isAlive |-> p.isAlive,
               score |-> p.score]

\* C33: handlers and ticks are atomic steps, and under every interleaving of
\* them the tick scans exactly the players of the map, every player that
\* passes the isAlive guards has a body to read, the tick runs to its emit, and
\* the players it has to skip (no snake yet because they joined during the
\* round, or not alive) leave it with the body, direction, alive flag and score
\* they had; a player that left is in neither the map nor the scan.
C33_TickSkips ==
    /\ {order[i] : i \in 1..Len(order)} = DOMAIN players
    /\ Len(order) = Cardinality(DOMAIN players)
    /\ \A id \in DOMAIN players : players[id].isAlive => HasPosition(players[id])
    /\ TickRan =>
           /\ DOMAIN players = DOMAIN prev.players
           /\ Len(emitted) = 1
           /\ \A id \in DOMAIN prev.players :
                  ~Moves(prev.players[id]) => SnakeOf(players[id]) = SnakeOf(prev.players[id])

\* a tick ran in a round that one player had left and another had joined,
\* and moved the snake that stayed
C33_Witness ==
    /\ TickRan /\ leftInRound
    /\ \E id, k \in DOMAIN players :
           /\ ~HasPosition(players[id])
           /\ HasPosition(players[k]) /\ players[k].body # prev.players[k].body

\* some grid cell is on no living snake that spawnFood scans
FreeCell == Grid \ OnLivingSnake(ScannedBySpawnFood) # {}

\* a respawn that can end does end, and the tick with it
RespawnTerminates == (spawning.active /\ FreeCell) ~> (~InCallback /\ lastEvent = "tick")
\* what a pass of the loop and the rest of the callback may do
RespawnStep ==
    /\ (spawning.active /\ ~spawning'.active) =>
           /\ FreeCell
           /\ spawning'.cell \in Grid \ OnLivingSnake(ScannedBySpawnFood)
    /\ (spawning.returned /\ ~spawning'.returned) =>
           /\ food' = spawning.cell
           /\ lastEvent' = "tick" /\ Len(emitted') = 1 /\ ~hung'
    /\ (spawning.active /\ ~FreeCell) => (spawning'.active /\ UNCHANGED serverVars)
\* C35: a food respawn entered while some grid cell is on no living snake
\* leaves its loop under fair sampling and the tick then runs to its emit with
\* the food on such a cell; a food respawn entered while every grid cell is on
\* a living snake never leaves its loop, so the tick never completes.
C35_FoodRespawn == RespawnTerminates /\ [][RespawnStep]_vars

\* spawnFood returned after a rejected sample and the tick completed
C35_Witness ==
    /\ ~InCallback /\ spawning.rejected
    /\ TickRan /\ food = spawning.cell
    /\ emitted = <<Msg("gameStateUpdate")>>

\* spawnFood is in its loop and every grid cell is on a living snake
SpawnFoodStuck ==
    /\ spawning.active /\ spawning.rejected /\ ~FreeCell

\* C36: a round in which only the timer fires is over, with the session back
\* in the lobby, after at most FIXED_TILE_COUNT_X ticks, in either gamemode.
C36_QuietRoundEnds ==
    /\ (gameState = "ingame") ~> (gameState = "lobby")
    /\ [](ticks >= FIXED_TILE_COUNT_X => gameState = "lobby")

\* a cooperative round of several players ended by its FIXED_TILE_COUNT_X-th tick
C36_Witness ==
    /\ gameState = "lobby" /\ lastEvent = "tick" /\ prev.gameState = "ingame"
    /\ ticks = FIXED_TILE_COUNT_X
    /\ activeGamemode = "cooperative" /\ Cardinality(DOMAIN players) > 1

\* the step is the page's gameStateUpdate handler going through the players of
\* the message at the head of the inbox
ProcessesSnapshot ==
    /\ inbox # <<>> /\ Head(inbox).msg = "gameStateUpdate"
    /\ inbox' = Tail(inbox)
    /\ currentView = "game"

\* C31: when the page has processed a gameStateUpdate that holds its own
\* player, the body, the head position and the alive flag of its local snake
\* are those of the message, whatever the page did to the snake before.
C31_Reconciled ==
    [][(ProcessesSnapshot /\ socketId \in DOMAIN Head(inbox).players) =>
          LET own == Head(inbox).players[socketId]
          IN  /\ localSnake'.body = own.body
              /\ Cell(localSnake'.x, localSnake'.y) = own.body[1]
              /\ localSnake'.isAlive = own.isAlive]_vars

\* the page turned its snake, which the server moved since, and has processed
\* the latest message
C31_Witness ==
    /\ lastEvent = "gameStateUpdate" /\ inbox = <<>>
    /\ intent.id = socketId /\ ~localSnake.canChangeDirection
    /\ <<intent.snake.dx, intent.snake.dy>> # <<intent.newDx, intent.newDy>>
    /\ localSnake.body # intent.snake.body
    /\ localSnake.body = players[socketId].body
    /\ localSnake.isAlive = players[socketId].isAlive

\* C32 (as claimed): when the page has processed a gameStateUpdate, the body of
\* every remote snake is the body the message gives for that player, a snake
\* the handler had to create included.
C32_Claimed ==
    [][ProcessesSnapshot =>
          \A id \in DOMAIN Head(inbox).players \ {socketId} :
              /\ id \in DOMAIN remotePlayers'
              /\ remotePlayers'[id].body = Head(inbox).players[id].body]_vars

====
